---- MODULE Spec2Model ----
(***************************************************************************)
(* Template synchronisation engine of templatamus: the metadata store      *)
(* (internal/config), the commit reconciler and the sync state machine     *)
(* (internal/sync.SyncProject, handleConflictResolution) and the commit    *)
(* selection (internal/cli.ChooseCommits).                                 *)
(*                                                                         *)
(* Conventions.  A Go string that holds a commit SHA is a pair             *)
(* <<prefix, rest>>: SHA[:8] is its first component, the empty string is   *)
(* <<>>.  A commit message is the sequence of its lines.  A time.Time is a *)
(* natural number, the zero time is 0.  A nil pointer is Nil, a file that  *)
(* does not exist is NoFile.  Go structs are records with the Go field     *)
(* names, JSON documents are records with the json tags.  Go slices are    *)
(* 1-based sequences here, so the Go index -1 ("not found") is 0.          *)
(***************************************************************************)
EXTENDS Integers, Sequences, FiniteSets, TLC

\* ------------------------------------------------------------------ bounds
\* longest upstream history GetCommits returns
MaxHist == 3
\* commit timestamps are 1..MaxDate
MaxDate == 2
\* number of sync runs in one behaviour
MaxRuns == 3

\* the longest upstream history of the runs checked for progress
MaxLiveHist == 2

\* ---------------------------------------------------------------- values
Nil == [nil |-> TRUE]
NoFile == [nofile |-> TRUE]
EmptyString == <<>>
ZeroTime == 0

\* the commit ids upstream can hold; <<1,1>> and <<1,2>> share their SHA[:8]
ShaUniverse == {<<1, 1>>, <<1, 2>>, <<2, 1>>}

\* the commits a project can have been generated from: <<2,2>> is never listed
AnchorUniverse == ShaUniverse \cup {<<2, 2>>}

MessageOf(sha) == IF sha[2] = 1 THEN <<"fix typo">> ELSE <<"fix typo", "details">>

AuthorOf(sha) == IF sha[1] = 1 THEN "alice" ELSE "bob"

URLOf(sha) == [html_url |-> sha]

\* model.CommitInfo as github.Client.GetCommits builds it (IsApplied keeps its zero value)
CommitInfo(sha, date) ==
    [SHA |-> sha, Message |-> MessageOf(sha), Author |-> AuthorOf(sha),
     Date |-> date, URL |-> URLOf(sha), IsApplied |-> FALSE]

\* ------------------------------------------------------- sequence helpers
Range(s) == {s[k] : k \in DOMAIN s}

NoDup(s) == \A a, b \in DOMAIN s : a # b => s[a] # s[b]

\* all sequences over S of length 0..n
SeqsUpTo(S, n) == UNION {[1..k -> S] : k \in 0..n}

\* every listing GetCommits can return: distinct SHAs, any order, any dates
Histories ==
    {h \in SeqsUpTo({CommitInfo(s, d) : s \in ShaUniverse, d \in 1..MaxDate}, MaxHist) :
        \A a, b \in DOMAIN h : a # b => h[a].SHA # h[b].SHA}

IsPermutationOf(a, b) ==
    /\ Len(a) = Len(b)
    /\ \E f \in [DOMAIN a -> DOMAIN b] :
          /\ \A x, y \in DOMAIN a : x # y => f[x] # f[y]
          /\ \A x \in DOMAIN a : a[x] = b[f[x]]

\* ------------------------------------------------------------ reconciler
\* the less function handed to sort.Slice: commits[i].Date.Before(commits[j].Date)
Less(a, b) == a.Date < b.Date

Swap(data, a, b) == [data EXCEPT ![a] = data[b], ![b] = data[a]]

\* sort.Slice on at most 12 elements is an insertion sort: element j moves
\* left while it is less than its left neighbour
RECURSIVE SiftLeft(_, _)
SiftLeft(data, j) ==
    IF j > 1 /\ Less(data[j], data[j - 1])
    THEN SiftLeft(Swap(data, j, j - 1), j - 1)
    ELSE data

RECURSIVE InsertionSortFrom(_, _)
InsertionSortFrom(data, k) ==
    IF k > Len(data) THEN data ELSE InsertionSortFrom(SiftLeft(data, k), k + 1)

SortSliceDescending(data) ==
    LET asc == InsertionSortFrom(data, 2)
    IN  [k \in DOMAIN asc |-> asc[Len(asc) + 1 - k]]

SortSlice(data) == InsertionSortFrom(data, 2)

AppliedSetOfNone(metadata) == {}

\* appliedSet: the map built from metadata.AppliedCommits
AppliedSetOf(metadata) == Range(metadata.AppliedCommits)

\* the first index whose SHA is the source commit, 0 when there is none
RECURSIVE FindSourceCommitFrom(_, _, _)
FindSourceCommitFrom(commits, sha, k) ==
    IF k > Len(commits) THEN 0
    ELSE IF commits[k].SHA = sha THEN k
    ELSE FindSourceCommitFrom(commits, sha, k + 1)

FindSourceCommit(commits, sha) == FindSourceCommitFrom(commits, sha, 1)

\* for k := from; k <= len(commits); k++ { if !appliedSet[SHA] { append } }
RECURSIVE CollectNew(_, _, _)
CollectNew(commits, appliedSet, from) ==
    IF from > Len(commits) THEN <<>>
    ELSE IF commits[from].SHA \notin appliedSet
         THEN <<commits[from]>> \o CollectNew(commits, appliedSet, from + 1)
         ELSE CollectNew(commits, appliedSet, from + 1)

FirstAfterAnchorInclusive(sourceCommitIndex) == sourceCommitIndex

\* the loop after the anchor starts at sourceCommitIndex + 1
FirstAfterAnchor(sourceCommitIndex) == sourceCommitIndex + 1

FallbackCandidatesUnfiltered(commits, appliedSet) == commits

\* source commit not found: every fetched commit that is not applied
FallbackCandidates(commits, appliedSet) == CollectNew(commits, appliedSet, 1)

\* newCommits: the fallback when the anchor is missing, else what follows it
Candidates(commits, appliedSet, sourceCommitIndex) ==
    IF sourceCommitIndex = 0
    THEN FallbackCandidates(commits, appliedSet)
    ELSE CollectNew(commits, appliedSet, FirstAfterAnchor(sourceCommitIndex))

WarnsAlways(sourceCommitIndex) == TRUE

\* the warning branch "if !sourceCommitFound": whether the run prints
\* "Warning: Source commit ... not found in repository history"
WarnsSourceCommitMissing(sourceCommitIndex) == sourceCommitIndex = 0

ReconcileMarkingSeen(listing, metadata) ==
    LET appliedSet == AppliedSetOf(metadata)
        commits == SortSlice(listing)
        sourceCommitIndex == FindSourceCommit(commits, metadata.SourceCommit)
        new == Candidates(commits, appliedSet, sourceCommitIndex)
    IN  [commits |-> commits,
         appliedSet |-> appliedSet,
         sourceCommitIndex |-> sourceCommitIndex,
         sourceCommitFound |-> sourceCommitIndex # 0,
         warned |-> WarnsSourceCommitMissing(sourceCommitIndex),
         newCommits |-> new,
         metadata |-> [metadata EXCEPT !.AppliedCommits =
                          @ \o [k \in DOMAIN new |-> new[k].SHA]]]

\* the reconciliation of SyncProject: what it computes from the fetched listing
\* and the loaded metadata, and the metadata it leaves behind the pointer
Reconcile(listing, metadata) ==
    LET appliedSet == AppliedSetOf(metadata)
        commits == SortSlice(listing)
        sourceCommitIndex == FindSourceCommit(commits, metadata.SourceCommit)
    IN  [commits |-> commits,
         appliedSet |-> appliedSet,
         sourceCommitIndex |-> sourceCommitIndex,
         sourceCommitFound |-> sourceCommitIndex # 0,
         warned |-> WarnsSourceCommitMissing(sourceCommitIndex),
         newCommits |-> Candidates(commits, appliedSet, sourceCommitIndex),
         metadata |-> metadata]

\* ------------------------------------------------------- metadata store
\* strings.Split(s, "/") on a string given as its sequence of characters
RECURSIVE SplitSlash(_)
SplitSlash(s) ==
    IF s = <<>> THEN <<<<>>>>
    ELSE LET rest == SplitSlash(Tail(s))
         IN  IF Head(s) = "/"
             THEN <<<<>>>> \o rest
             ELSE <<<<Head(s)>> \o rest[1]>> \o Tail(rest)

\* strings.Split(commit.Message, "\n")[0]
FirstLine(message) == IF message = <<>> THEN <<>> ELSE message[1]

\* commit.SHA[:8]
Short(sha) == sha[1]

\* json.MarshalIndent of a model.CommitInfo: IsApplied has the tag json:"-"
MarshalCommitInfo(c) ==
    [sha |-> c.SHA, message |-> c.Message, author |-> c.Author,
     date |-> c.Date, url |-> c.URL]

\* json.Unmarshal into a fresh model.CommitInfo
UnmarshalCommitInfo(j) ==
    [SHA |-> j.sha, Message |-> j.message, Author |-> j.author,
     Date |-> j.date, URL |-> j.url, IsApplied |-> FALSE]

MarshalSyncStatusNoSnapshot(s) ==
    [in_progress |-> s.InProgress, current_commit |-> s.CurrentCommit,
     has_conflicts |-> s.HasConflicts, conflicts_at |-> s.ConflictsAt]

\* json.MarshalIndent of a model.SyncStatus: conflict_commit is omitempty
MarshalSyncStatus(s) ==
    IF s.ConflictCommit = Nil
    THEN [in_progress |-> s.InProgress, current_commit |-> s.CurrentCommit,
          has_conflicts |-> s.HasConflicts, conflicts_at |-> s.ConflictsAt]
    ELSE [in_progress |-> s.InProgress, current_commit |-> s.CurrentCommit,
          has_conflicts |-> s.HasConflicts, conflicts_at |-> s.ConflictsAt,
          conflict_commit |-> MarshalCommitInfo(s.ConflictCommit)]

\* the zero value &model.SyncStatus{}
EmptySyncStatus ==
    [InProgress |-> FALSE, CurrentCommit |-> EmptyString, HasConflicts |-> FALSE,
     ConflictsAt |-> ZeroTime, ConflictCommit |-> Nil]

UnmarshalSyncStatus(j) ==
    [InProgress |-> j.in_progress, CurrentCommit |-> j.current_commit,
     HasConflicts |-> j.has_conflicts, ConflictsAt |-> j.conflicts_at,
     ConflictCommit |->
        IF "conflict_commit" \in DOMAIN j
        THEN UnmarshalCommitInfo(j.conflict_commit)
        ELSE Nil]

\* config.LoadSyncStatus on a readable directory: no sync.json is the empty status
LoadSyncStatus(file) ==
    IF file = NoFile THEN EmptySyncStatus ELSE UnmarshalSyncStatus(file)

LoadSyncStatusFailsAlways(file, io) == io = "error"

\* config.LoadSyncStatus returns an error only past the os.Stat check: a missing
\* sync.json is answered before anything is read or parsed
LoadSyncStatusFails(file, io) == file # NoFile /\ io = "error"

\* config.SaveSyncStatus: the new content of sync.json
SaveSyncStatus(status) == MarshalSyncStatus(status)

ClearSyncStatusKeepsFile(file) == file

\* config.ClearSyncStatus: sync.json is removed (nothing to do when absent)
ClearSyncStatus(file) == NoFile

ClearSyncStatusFailsAlways(file, io) == io = "error"

\* config.ClearSyncStatus returns the error of os.Remove, which it calls only when
\* os.Stat has found sync.json
ClearSyncStatusFails(file, io) == file # NoFile /\ io = "error"

MarshalMetadataWithoutApplied(m) ==
    [source_repo |-> m.SourceRepo, source_branch |-> m.SourceBranch,
     source_commit |-> m.SourceCommit, created_at |-> m.CreatedAt,
     last_synced_at |-> m.LastSyncedAt, applied_commits |-> <<>>]

MarshalMetadata(m) ==
    [source_repo |-> m.SourceRepo, source_branch |-> m.SourceBranch,
     source_commit |-> m.SourceCommit, created_at |-> m.CreatedAt,
     last_synced_at |-> m.LastSyncedAt, applied_commits |-> m.AppliedCommits]

UnmarshalMetadata(j) ==
    [SourceRepo |-> j.source_repo, SourceBranch |-> j.source_branch,
     SourceCommit |-> j.source_commit, CreatedAt |-> j.created_at,
     LastSyncedAt |-> j.last_synced_at, AppliedCommits |-> j.applied_commits]

\* config.SaveProjectMetadata: the new content of metadata.json
SaveProjectMetadata(m) == MarshalMetadata(m)

CreateInitialMetadataNothingApplied(repo, branch, commit, now) ==
    SaveProjectMetadata(
        [SourceRepo |-> repo, SourceBranch |-> branch, SourceCommit |-> commit,
         CreatedAt |-> now, LastSyncedAt |-> now, AppliedCommits |-> <<>>])

\* config.CreateInitialMetadata: the metadata.json of a new project
CreateInitialMetadata(repo, branch, commit, now) ==
    SaveProjectMetadata(
        [SourceRepo |-> repo, SourceBranch |-> branch, SourceCommit |-> commit,
         CreatedAt |-> now, LastSyncedAt |-> now, AppliedCommits |-> <<commit>>])

\* the zero value model.ProjectMetadata{} a run holds before it has loaded any
EmptyMetadata ==
    [SourceRepo |-> <<>>, SourceBranch |-> "", SourceCommit |-> EmptyString,
     CreatedAt |-> ZeroTime, LastSyncedAt |-> ZeroTime, AppliedCommits |-> <<>>]

\* ------------------------------------------------------------ selection
\* the option string ChooseCommits shows for a commit
OptionOf(c) ==
    <<Short(c.SHA), IF c.IsApplied THEN "[APPLIED] " ELSE "", FirstLine(c.Message)>>

OptionsOf(commits) == [k \in DOMAIN commits |-> OptionOf(commits[k])]

\* the first index whose option string equals sel (the inner loop of ChooseCommits)
RECURSIVE FirstOption(_, _, _)
FirstOption(options, sel, k) ==
    IF k > Len(options) THEN 0
    ELSE IF options[k] = sel THEN k
    ELSE FirstOption(options, sel, k + 1)

\* the increasing sequence of the members of a set of indices
RECURSIVE SortedIndices(_)
SortedIndices(S) ==
    IF S = {} THEN <<>>
    ELSE LET m == CHOOSE x \in S : \A y \in S : x <= y
         IN  <<m>> \o SortedIndices(S \ {m})

\* survey.MultiSelect: the option strings of the ticked indices, in option order
MultiChoose(options, ticked) ==
    LET ix == SortedIndices(ticked) IN [k \in DOMAIN ix |-> options[ix[k]]]

\* ChooseCommits: map each selected option string back to the first commit showing it
RECURSIVE MapSelected(_, _, _)
MapSelected(commits, options, selected) ==
    IF selected = <<>> THEN <<>>
    ELSE LET k == FirstOption(options, Head(selected), 1)
         IN  (IF k = 0 THEN <<>> ELSE <<commits[k]>>)
             \o MapSelected(commits, options, Tail(selected))

ChooseCommits(commits, ticked) ==
    LET options == OptionsOf(commits)
    IN  MapSelected(commits, options, MultiChoose(options, ticked))

\* ------------------------------------------------------- collaborators
\* github.Client.GetDiff: the diff of a commit
DiffOf(sha) == [diff_of |-> sha]

\* git.ApplyDiff from what `git apply --reject` did: its exit code and whether
\* filepath.Glob(dir/*.rej) finds a reject file in the project's top directory
ApplyDiff(exitCode, rejInTopDir) ==
    IF exitCode = 0 THEN "applied"
    ELSE IF exitCode = 1 /\ rejInTopDir THEN "conflict"
    ELSE "error"

\* where `git apply --reject` left *.rej files: nowhere, in the project's top
\* directory, or only next to files in subdirectories
RejectPlaces == {"none", "top", "nested"}

\* the temporary patch file of git.ApplyDiff: created and written, or one of
\* the two steps failing
TempFileResults == {"ok", "create_error", "write_error"}

GlobRejAnywhere(rejects) == rejects # "none"

\* matches, err := filepath.Glob(filepath.Join(dir, "*.rej")); len(matches) > 0
GlobRej(rejects) == rejects = "top"

\* git.ApplyDiff as a whole: the temporary file, then `git apply --reject`
ApplyDiffCall(tmp, exitCode, rejects) ==
    IF tmp # "ok" THEN "error" ELSE ApplyDiff(exitCode, GlobRej(rejects))

\* the message of the commit SyncProject creates for an applied upstream commit
SyncedMessage(metadata, commit) ==
    [repo |-> metadata.SourceRepo, summary |-> FirstLine(commit.Message), resolved |-> FALSE]

\* the message of the commit handleConflictResolution creates
ResolvedMessage(metadata, commit) ==
    [repo |-> metadata.SourceRepo, summary |-> FirstLine(commit.Message), resolved |-> TRUE]

\* ================================================================ state
VARIABLES
    upstream,        \* the listing github.Client.GetCommits returns for the branch
    metaFile,        \* .templatamus/metadata.json (JSON document or NoFile)
    syncFile,        \* .templatamus/sync.json (JSON document or NoFile)
    patchFile,       \* .templatamus/conflict.patch (a diff or NoFile)
    now,             \* what time.Now() returns during the current run
    runs,            \* number of SyncProject calls started so far
    pc,              \* where the current SyncProject call stands
    metadata,        \* SyncProject's local *model.ProjectMetadata
    syncStatus,      \* SyncProject's local *model.SyncStatus
    commits,         \* the fetched commits, after sort.Slice
    newCommits,      \* the candidate sequence
    warned,          \* the "Source commit not found" warning was printed in this run
    selectedCommits, \* what cli.ChooseCommits returned
    idx,             \* position of the apply loop in selectedCommits
    appliedSet,      \* the lookup map built before reconciliation
    commit,          \* the loop variable / the conflict commit being handled
    diff,            \* the diff fetched for commit
    outcome,         \* how the current run ended ("running" while it has not)
    err,             \* the error SyncProject returned ("" for nil)
    trace,           \* the collaborator calls of the current run, in order
    commitLog,       \* the messages of the git commits the current run created
    startMeta,       \* metadata.json as it was when the current run started
    startSync,       \* sync.json as it was when the current run started
    lastRun,         \* outcome and commit of the previous run, and whether it
                     \* failed in the apply loop
    lastRecon,       \* input and result of the latest reconciliation of an earlier run
    rIn,             \* reconciler harness: the inputs
    rOut             \* reconciler harness: the results

vars ==
    <<upstream, metaFile, syncFile, patchFile, now, runs, pc, metadata, syncStatus,
      commits, newCommits, warned, selectedCommits, idx, appliedSet, commit, diff,
      outcome, err, trace, commitLog, startMeta, startSync, lastRun, lastRecon,
      rIn, rOut>>

disk == <<metaFile, syncFile, patchFile>>

reconciled == <<commits, newCommits, warned, appliedSet>>

harness == <<rIn, rOut>>

watch == <<startMeta, startSync, lastRun>>

\* the zero value model.CommitInfo{}
EmptyCommit ==
    [SHA |-> EmptyString, Message |-> <<>>, Author |-> "", Date |-> ZeroTime,
     URL |-> [html_url |-> EmptyString], IsApplied |-> FALSE]

NoDiff == [diff_of |-> EmptyString]

\* source_repo values: owner/name, one without the separator, and one with a
\* second separator
RepoValues == {<<"o", "/", "n">>, <<"o", "n">>, <<"o", "/", "n", "/", "x">>}

Event(op, sha, result) == [op |-> op, sha |-> sha, result |-> result]

NoRecon == [valid |-> FALSE, applied |-> <<>>, newCommits |-> <<>>]

NoRun == [outcome |-> "none", sha |-> EmptyString, applying |-> FALSE]

HarnessIdle == [used |-> FALSE]

\* the project right after createNewProject, before any sync run; a directory
\* without metadata.json is the case SyncProject rejects
Init ==
    /\ upstream \in Histories
    /\ now = 1
    /\ metaFile \in
          {CreateInitialMetadata(repo, "main", sha, now) :
              repo \in RepoValues, sha \in AnchorUniverse} \cup {NoFile}
    /\ syncFile = NoFile
    /\ patchFile = NoFile
    /\ runs = 0
    /\ pc = "idle"
    /\ metadata = EmptyMetadata
    /\ syncStatus = EmptySyncStatus
    /\ commits = <<>>
    /\ newCommits = <<>>
    /\ warned = FALSE
    /\ selectedCommits = <<>>
    /\ idx = 0
    /\ appliedSet = {}
    /\ commit = EmptyCommit
    /\ diff = NoDiff
    /\ outcome = "none"
    /\ err = ""
    /\ trace = <<>>
    /\ commitLog = <<>>
    /\ startMeta = metaFile
    /\ startSync = syncFile
    /\ lastRun = NoRun
    /\ lastRecon = NoRecon
    /\ rIn = HarnessIdle
    /\ rOut = HarnessIdle

\* SyncProject returns: e = "" is a nil error
ReturnAndTryAgain(o, e) ==
    /\ pc' = pc
    /\ outcome' = outcome
    /\ err' = err

\* a return statement of SyncProject or handleConflictResolution
Return(o, e) ==
    /\ pc' = "done"
    /\ outcome' = o
    /\ err' = e

Continue(label) ==
    /\ pc' = label
    /\ UNCHANGED <<outcome, err>>

\* the errors of the apply loop that are not a conflict: GetDiff, ApplyDiff,
\* CommitChanges and SaveProjectMetadata failing
ApplyFailures ==
    {"failed to get diff", "failed to apply diff", "failed to commit changes",
     "failed to update metadata"}

\* the current run failed in the apply loop, on the commit it was applying
FailedApplying == outcome = "error" /\ err \in ApplyFailures /\ selectedCommits # <<>>

\* the current run fetched the history and reconciled it
Reconciled == \E k \in DOMAIN trace : trace[k].op = "GetCommits" /\ trace[k].result = "ok"

\* ------------------------------------------------------------ SyncProject
\* a new run starts: config.LoadProjectMetadata
LoadProjectMetadataFailsOnReadOnly(file, io) == file # NoFile /\ io = "error"

\* config.LoadProjectMetadata returns an error: os.ReadFile fails, which it
\* does for a missing metadata.json, or the JSON does not parse
LoadProjectMetadataFails(file, io) == file = NoFile \/ io = "error"

\* config.LoadProjectMetadata: the metadata it returns
LoadProjectMetadata(file) ==
    IF file = NoFile THEN EmptyMetadata ELSE UnmarshalMetadata(file)

StartRun ==
    /\ pc \in {"idle", "done"}
    /\ runs < MaxRuns
    /\ runs' = runs + 1
    /\ now' = now + 1
    /\ startMeta' = metaFile
    /\ startSync' = syncFile
    /\ lastRun' = [outcome |-> outcome, sha |-> commit.SHA,
                   applying |-> FailedApplying]
    /\ lastRecon' = IF Reconciled
                    THEN [valid |-> TRUE, applied |-> startMeta.applied_commits,
                          newCommits |-> newCommits]
                    ELSE lastRecon
    /\ syncStatus' = EmptySyncStatus
    /\ commits' = <<>>
    /\ newCommits' = <<>>
    /\ warned' = FALSE
    /\ selectedCommits' = <<>>
    /\ idx' = 0
    /\ appliedSet' = {}
    /\ commit' = EmptyCommit
    /\ diff' = NoDiff
    /\ trace' = <<>>
    /\ commitLog' = <<>>
    /\ \E io \in {"ok", "error"} :
          IF LoadProjectMetadataFails(metaFile, io)
          THEN /\ metadata' = EmptyMetadata
               /\ pc' = "done"
               /\ outcome' = "error"
               /\ err' = "failed to load project metadata"
          ELSE /\ metadata' = LoadProjectMetadata(metaFile)
               /\ pc' = "load_sync"
               /\ outcome' = "running"
               /\ err' = ""
    /\ UNCHANGED <<upstream, disk, harness>>

HasOpenConflictIgnoringFlag(status) == status.InProgress /\ ~status.HasConflicts

\* "if syncStatus.InProgress && syncStatus.HasConflicts"
HasOpenConflict(status) == status.InProgress /\ status.HasConflicts

AfterLoadSyncSplitFirst(status, repo) ==
    IF Len(SplitSlash(repo)) # 2 THEN "invalid_format"
    ELSE IF HasOpenConflict(status)
         THEN IF status.ConflictCommit = Nil THEN "missing_commit" ELSE "resolve"
         ELSE "reconcile"

\* where SyncProject goes once the sync status is loaded: the open conflict is
\* looked at first (handleConflictResolution and its nil check), the split of
\* source_repo into owner and name only after it
AfterLoadSync(status, repo) ==
    IF HasOpenConflict(status)
    THEN IF status.ConflictCommit = Nil THEN "missing_commit" ELSE "resolve"
    ELSE IF Len(SplitSlash(repo)) # 2 THEN "invalid_format" ELSE "reconcile"

\* config.LoadSyncStatus, the check for an open conflict and the split of
\* source_repo into owner and name
LoadSync ==
    /\ pc = "load_sync"
    /\ \E io \in {"ok", "error"} :
          IF LoadSyncStatusFails(syncFile, io)
          THEN /\ Return("error", "failed to load sync status")
               /\ UNCHANGED <<syncStatus, commit>>
          ELSE LET status == LoadSyncStatus(syncFile)
                   next == AfterLoadSync(status, metadata.SourceRepo)
               IN  /\ syncStatus' = status
                   /\ commit' = IF next = "resolve" THEN status.ConflictCommit ELSE commit
                   /\ CASE next = "resolve" -> Continue("hcr_confirm")
                        [] next = "missing_commit" ->
                              Return("error", "missing conflict commit information")
                        [] next = "invalid_format" ->
                              Return("error", "invalid repository format")
                        [] next = "reconcile" -> Continue("get_commits")
    /\ UNCHANGED <<upstream, disk, now, runs, metadata, reconciled, selectedCommits,
                   idx, diff, trace, commitLog, watch, lastRecon, harness>>

UpToDateWithOneLeft(candidates) == Len(candidates) <= 1

\* "if len(newCommits) == 0"
UpToDate(candidates) == Len(candidates) = 0

\* ghClient.GetCommits and the reconciliation up to the "up to date" return
GetCommits ==
    /\ pc = "get_commits"
    /\ \E res \in {"ok", "error"} :
          /\ trace' = Append(trace, Event("GetCommits", EmptyString, res))
          /\ IF res = "error"
             THEN /\ Return("error", "failed to get commits")
                  /\ UNCHANGED <<metadata, reconciled>>
             ELSE LET r == Reconcile(upstream, metadata)
                  IN  /\ metadata' = r.metadata
                      /\ commits' = r.commits
                      /\ appliedSet' = r.appliedSet
                      /\ newCommits' = r.newCommits
                      /\ warned' = r.warned
                      /\ IF UpToDate(r.newCommits)
                         THEN Return("up_to_date", "")
                         ELSE Continue("choose")
    /\ UNCHANGED <<upstream, disk, now, runs, syncStatus, selectedCommits,
                   idx, commit, diff, commitLog, watch, lastRecon, harness>>

NoneSelectedNever(selected) == FALSE

\* "if len(selectedCommits) == 0"
NoneSelected(selected) == Len(selected) = 0

\* cli.ChooseCommits: the operator ticks some of the candidates, or the prompt fails
Choose ==
    /\ pc = "choose"
    /\ \/ /\ trace' = Append(trace, Event("ChooseCommits", EmptyString, "error"))
          /\ Return("error", "commit selection failed")
          /\ UNCHANGED <<selectedCommits, idx>>
       \/ \E ticked \in SUBSET DOMAIN newCommits :
             LET selected == ChooseCommits(newCommits, ticked)
             IN  /\ trace' = Append(trace, Event("ChooseCommits", EmptyString, "ok"))
                 /\ selectedCommits' = selected
                 /\ IF NoneSelected(selected)
                    THEN /\ Return("no_selection", "")
                         /\ UNCHANGED idx
                    ELSE /\ idx' = 1
                         /\ Continue("loop")
    /\ UNCHANGED <<upstream, disk, now, runs, metadata, syncStatus, reconciled,
                   commit, diff, commitLog, watch, lastRecon, harness>>

NextIndexStuck(i) == i

\* "for _, commit := range selectedCommits": the step to the next selected commit
NextIndex(i) == i + 1

\* the head of the apply loop: the next selected commit, skipped when appliedSet has it
LoopHead ==
    /\ pc = "loop"
    /\ IF idx > Len(selectedCommits)
       THEN /\ Return("completed", "")
            /\ UNCHANGED <<commit, idx>>
       ELSE /\ commit' = selectedCommits[idx]
            /\ IF selectedCommits[idx].SHA \in appliedSet
               THEN /\ idx' = NextIndex(idx)
                    /\ Continue("loop")
               ELSE /\ UNCHANGED idx
                    /\ Continue("get_diff")
    /\ UNCHANGED <<upstream, disk, now, runs, metadata, syncStatus, reconciled,
                   selectedCommits, diff, trace, commitLog, watch, lastRecon, harness>>

\* ghClient.GetDiff for the current commit
GetDiff ==
    /\ pc = "get_diff"
    /\ \E res \in {"ok", "error"} :
          /\ trace' = Append(trace, Event("GetDiff", commit.SHA, res))
          /\ IF res = "error"
             THEN /\ Return("error", "failed to get diff")
                  /\ UNCHANGED diff
             ELSE /\ diff' = DiffOf(commit.SHA)
                  /\ Continue("apply_diff")
    /\ UNCHANGED <<upstream, disk, now, runs, metadata, syncStatus, reconciled,
                   selectedCommits, idx, commit, commitLog, watch, lastRecon, harness>>

\* exit codes of `git apply`: success, rejected hunks, any other failure
GitExitCodes == {0, 1, 128}

\* git.ApplyDiff for the fetched diff
ApplyPatch ==
    /\ pc = "apply_diff"
    /\ \E tmp \in TempFileResults, exitCode \in GitExitCodes, rejects \in RejectPlaces :
          LET res == ApplyDiffCall(tmp, exitCode, rejects)
          IN  /\ trace' = Append(trace, Event("ApplyDiff", commit.SHA, res))
              /\ IF res = "error"
                 THEN Return("error", "failed to apply diff")
                 ELSE IF res = "conflict"
                      THEN Continue("save_patch")
                      ELSE Continue("commit")
    /\ UNCHANGED <<upstream, disk, now, runs, metadata, syncStatus, reconciled,
                   selectedCommits, idx, commit, diff, commitLog, watch, lastRecon,
                   harness>>

PatchFileContentEmpty(d) == NoDiff

\* os.WriteFile(patchPath, []byte(diff), 0644): what conflict.patch then holds
PatchFileContent(d) == d

\* conflict: the diff is written to .templatamus/conflict.patch
SavePatch ==
    /\ pc = "save_patch"
    /\ \E res \in {"ok", "error"} :
          /\ trace' = Append(trace, Event("WritePatch", commit.SHA, res))
          /\ IF res = "error"
             THEN /\ Return("error", "failed to save patch file")
                  /\ UNCHANGED patchFile
             ELSE /\ patchFile' = PatchFileContent(diff)
                  /\ Continue("save_sync")
    /\ UNCHANGED <<upstream, metaFile, syncFile, now, runs, metadata, syncStatus,
                   reconciled, selectedCommits, idx, commit, diff, commitLog, watch,
                   lastRecon, harness>>

ConflictStatusWithoutSnapshot(status, c, t) ==
    [status EXCEPT !.InProgress = TRUE, !.CurrentCommit = c.SHA,
                   !.HasConflicts = TRUE, !.ConflictsAt = t]

\* the fields SyncProject sets on syncStatus before it saves it
ConflictStatus(status, c, t) ==
    [status EXCEPT !.InProgress = TRUE, !.CurrentCommit = c.SHA,
                   !.HasConflicts = TRUE, !.ConflictsAt = t,
                   !.ConflictCommit = c]

\* conflict: the status is saved and SyncProject returns the conflict error
SaveConflict ==
    /\ pc = "save_sync"
    /\ syncStatus' = ConflictStatus(syncStatus, commit, now)
    /\ \E res \in {"ok", "error"} :
          /\ trace' = Append(trace, Event("SaveSyncStatus", commit.SHA, res))
          /\ IF res = "error"
             THEN /\ Return("error", "failed to save sync status")
                  /\ UNCHANGED syncFile
             ELSE /\ syncFile' = SaveSyncStatus(syncStatus')
                  /\ Return("conflict", "merge conflicts detected")
    /\ UNCHANGED <<upstream, metaFile, patchFile, now, runs, metadata, reconciled,
                   selectedCommits, idx, commit, diff, commitLog, watch, lastRecon,
                   harness>>

\* git.CommitChanges after a clean apply: a commit, nothing to commit, or a failure
CommitApplied ==
    /\ pc = "commit"
    /\ \E res \in {"committed", "nothing", "error"} :
          /\ trace' = Append(trace, Event("CommitChanges", commit.SHA, res))
          /\ commitLog' = IF res = "committed"
                          THEN Append(commitLog, SyncedMessage(metadata, commit))
                          ELSE commitLog
          /\ IF res = "error"
             THEN Return("error", "failed to commit changes")
             ELSE Continue("save_meta")
    /\ UNCHANGED <<upstream, disk, now, runs, metadata, syncStatus, reconciled,
                   selectedCommits, idx, commit, diff, watch, lastRecon, harness>>

MarkAppliedInFront(m, sha, t) ==
    [m EXCEPT !.AppliedCommits = <<sha>> \o @, !.LastSyncedAt = t]

MarkAppliedWithoutAppend(m, sha, t) == [m EXCEPT !.LastSyncedAt = t]

MarkAppliedMovingSourceCommit(m, sha, t) ==
    [m EXCEPT !.AppliedCommits = Append(@, sha), !.LastSyncedAt = t,
              !.SourceCommit = sha]

MarkAppliedSourceCommit(m, sha, t) ==
    [m EXCEPT !.AppliedCommits = Append(@, m.SourceCommit), !.LastSyncedAt = t]

\* the commit id is appended, last_synced_at refreshed
MarkApplied(m, sha, t) ==
    [m EXCEPT !.AppliedCommits = Append(@, sha), !.LastSyncedAt = t]

\* the metadata update after a clean apply and config.SaveProjectMetadata
SaveApplied ==
    /\ pc = "save_meta"
    /\ metadata' = MarkApplied(metadata, commit.SHA, now)
    /\ \E res \in {"ok", "error"} :
          /\ trace' = Append(trace, Event("SaveProjectMetadata", commit.SHA, res))
          /\ IF res = "error"
             THEN /\ Return("error", "failed to update metadata")
                  /\ UNCHANGED <<metaFile, idx>>
             ELSE /\ metaFile' = SaveProjectMetadata(metadata')
                  /\ idx' = NextIndex(idx)
                  /\ Continue("loop")
    /\ UNCHANGED <<upstream, syncFile, patchFile, now, runs, syncStatus, reconciled,
                   selectedCommits, commit, diff, commitLog, watch, lastRecon, harness>>

\* ------------------------------------------------ handleConflictResolution
\* "if !resolved": where handleConflictResolution goes after the first answer
AfterConfirmResolved(answer) == IF answer = "yes" THEN "hcr_commit" ELSE "hcr_skip"

AfterConfirmSkipInverted(answer) == IF answer = "yes" THEN "done" ELSE "hcr_clear_skip"

\* "if abort": clear the status, else return the "sync aborted" error
AfterConfirmSkip(answer) == IF answer = "yes" THEN "hcr_clear_skip" ELSE "done"

\* "Have you resolved the conflicts and want to continue?"
HcrConfirm ==
    /\ pc = "hcr_confirm"
    /\ \E answer \in {"yes", "no", "error"} :
          /\ trace' = Append(trace, Event("ConfirmResolved", commit.SHA, answer))
          /\ IF answer = "error"
             THEN Return("error", "prompt failed")
             ELSE Continue(AfterConfirmResolved(answer))
    /\ UNCHANGED <<upstream, disk, now, runs, metadata, syncStatus, reconciled,
                   selectedCommits, idx, commit, diff, commitLog, watch, lastRecon,
                   harness>>

\* "Do you want to abort applying this commit and mark it as skipped?"
HcrAskSkip ==
    /\ pc = "hcr_skip"
    /\ \E answer \in {"yes", "no", "error"} :
          /\ trace' = Append(trace, Event("ConfirmSkip", commit.SHA, answer))
          /\ IF answer = "error"
             THEN Return("error", "prompt failed")
             ELSE IF AfterConfirmSkip(answer) = "done"
                  THEN Return("unresolved", "sync aborted, please resolve conflicts and try again")
                  ELSE Continue(AfterConfirmSkip(answer))
    /\ UNCHANGED <<upstream, disk, now, runs, metadata, syncStatus, reconciled,
                   selectedCommits, idx, commit, diff, commitLog, watch, lastRecon,
                   harness>>

\* skip confirmed: config.ClearSyncStatus, nothing else
HcrClearSkipped ==
    /\ pc = "hcr_clear_skip"
    /\ \E res \in {"ok", "error"} :
          /\ trace' = Append(trace, Event("ClearSyncStatus", commit.SHA, res))
          /\ IF ClearSyncStatusFails(syncFile, res)
             THEN /\ Return("error", "failed to clear sync status")
                  /\ UNCHANGED syncFile
             ELSE /\ syncFile' = ClearSyncStatus(syncFile)
                  /\ Return("skipped", "")
    /\ UNCHANGED <<upstream, metaFile, patchFile, now, runs, metadata, syncStatus,
                   reconciled, selectedCommits, idx, commit, diff, commitLog, watch,
                   lastRecon, harness>>

\* resolved confirmed: git.CommitChanges on the resolved working tree
HcrCommit ==
    /\ pc = "hcr_commit"
    /\ \E res \in {"committed", "nothing", "error"} :
          /\ trace' = Append(trace, Event("CommitChanges", commit.SHA, res))
          /\ commitLog' = IF res = "committed"
                          THEN Append(commitLog, ResolvedMessage(metadata, commit))
                          ELSE commitLog
          /\ IF res = "error"
             THEN Return("error", "failed to commit resolved changes")
             ELSE Continue("hcr_save_meta")
    /\ UNCHANGED <<upstream, disk, now, runs, metadata, syncStatus, reconciled,
                   selectedCommits, idx, commit, diff, watch, lastRecon, harness>>

\* resolved: the metadata update and config.SaveProjectMetadata
HcrSaveResolved ==
    /\ pc = "hcr_save_meta"
    /\ metadata' = MarkApplied(metadata, commit.SHA, now)
    /\ \E res \in {"ok", "error"} :
          /\ trace' = Append(trace, Event("SaveProjectMetadata", commit.SHA, res))
          /\ IF res = "error"
             THEN /\ Return("error", "failed to update metadata")
                  /\ UNCHANGED metaFile
             ELSE /\ metaFile' = SaveProjectMetadata(metadata')
                  /\ Continue("hcr_clear")
    /\ UNCHANGED <<upstream, syncFile, patchFile, now, runs, syncStatus, reconciled,
                   selectedCommits, idx, commit, diff, commitLog, watch, lastRecon,
                   harness>>

\* resolved: config.ClearSyncStatus and the successful return
HcrClearResolved ==
    /\ pc = "hcr_clear"
    /\ \E res \in {"ok", "error"} :
          /\ trace' = Append(trace, Event("ClearSyncStatus", commit.SHA, res))
          /\ IF ClearSyncStatusFails(syncFile, res)
             THEN /\ Return("error", "failed to clear sync status")
                  /\ UNCHANGED syncFile
             ELSE /\ syncFile' = ClearSyncStatus(syncFile)
                  /\ Return("resolved", "")
    /\ UNCHANGED <<upstream, metaFile, patchFile, now, runs, metadata, syncStatus,
                   reconciled, selectedCommits, idx, commit, diff, commitLog, watch,
                   lastRecon, harness>>

Next ==
    \/ StartRun
    \/ LoadSync
    \/ GetCommits
    \/ Choose
    \/ LoopHead
    \/ GetDiff
    \/ ApplyPatch
    \/ SavePatch
    \/ SaveConflict
    \/ CommitApplied
    \/ SaveApplied
    \/ HcrConfirm
    \/ HcrAskSkip
    \/ HcrClearSkipped
    \/ HcrCommit
    \/ HcrSaveResolved
    \/ HcrClearResolved

Spec == Init /\ [][Next]_vars

\* ------------------------------------------------------ reconciler harness
\* applied_commits values: every duplicate-free sequence of known commit ids
AppliedChoices == {a \in SeqsUpTo(ShaUniverse, Cardinality(ShaUniverse)) : NoDup(a)}

\* every order upstream can list the commits of listing in
Relistings(listing) ==
    {[k \in DOMAIN listing |-> listing[p[k]]] : p \in Permutations(DOMAIN listing)}

\* two listings of the same fetched history, a source commit and applied_commits
ReconcilerInput(a, b, src, ap) ==
    [used |-> TRUE, listingA |-> a, listingB |-> b,
     metadata |-> [EmptyMetadata EXCEPT !.SourceCommit = src, !.AppliedCommits = ap]]

InitReconciler ==
    /\ upstream = <<>>
    /\ now = 1
    /\ metaFile = NoFile
    /\ syncFile = NoFile
    /\ patchFile = NoFile
    /\ runs = 0
    /\ pc = "idle"
    /\ metadata = EmptyMetadata
    /\ syncStatus = EmptySyncStatus
    /\ commits = <<>>
    /\ newCommits = <<>>
    /\ warned = FALSE
    /\ selectedCommits = <<>>
    /\ idx = 0
    /\ appliedSet = {}
    /\ commit = EmptyCommit
    /\ diff = NoDiff
    /\ outcome = "none"
    /\ err = ""
    /\ trace = <<>>
    /\ commitLog = <<>>
    /\ startMeta = NoFile
    /\ startSync = NoFile
    /\ lastRun = NoRun
    /\ lastRecon = NoRecon
    /\ \E a \in Histories, src \in AnchorUniverse, ap \in AppliedChoices :
          \E b \in Relistings(a) : rIn = ReconcilerInput(a, b, src, ap)
    /\ rOut = HarnessIdle

\* SyncProject's reconciliation applied to both listings
RunReconciler ==
    /\ rIn.used
    /\ ~rOut.used
    /\ rOut' = [used |-> TRUE,
                a |-> Reconcile(rIn.listingA, rIn.metadata),
                b |-> Reconcile(rIn.listingB, rIn.metadata)]
    /\ UNCHANGED <<upstream, disk, now, runs, pc, metadata, syncStatus, reconciled,
                   selectedCommits, idx, commit, diff, outcome, err, trace, commitLog,
                   watch, lastRecon, rIn>>

SpecReconciler == InitReconciler /\ [][RunReconciler]_vars

\* ---------------------------------------------------- status store harness
\* what .templatamus/sync.json can hold: nothing, or a conflict record SyncProject saved
SyncFiles ==
    {NoFile} \cup
    {SaveSyncStatus(ConflictStatus(EmptySyncStatus, CommitInfo(s, d), t)) :
        s \in ShaUniverse, d \in 1..MaxDate, t \in 1..(MaxRuns + 1)}

InitStatusStore ==
    /\ upstream = <<>>
    /\ now = 1
    /\ metaFile = NoFile
    /\ syncFile = NoFile
    /\ patchFile = NoFile
    /\ runs = 0
    /\ pc = "idle"
    /\ metadata = EmptyMetadata
    /\ syncStatus = EmptySyncStatus
    /\ commits = <<>>
    /\ newCommits = <<>>
    /\ warned = FALSE
    /\ selectedCommits = <<>>
    /\ idx = 0
    /\ appliedSet = {}
    /\ commit = EmptyCommit
    /\ diff = NoDiff
    /\ outcome = "none"
    /\ err = ""
    /\ trace = <<>>
    /\ commitLog = <<>>
    /\ startMeta = NoFile
    /\ startSync = NoFile
    /\ lastRun = NoRun
    /\ lastRecon = NoRecon
    /\ \E file \in SyncFiles, readIO \in {"ok", "error"}, removeIO \in {"ok", "error"} :
          rIn = [used |-> TRUE, file |-> file, readIO |-> readIO, removeIO |-> removeIO]
    /\ rOut = HarnessIdle

\* config.LoadSyncStatus and config.ClearSyncStatus applied to the same directory
RunStatusStore ==
    /\ rIn.used
    /\ ~rOut.used
    /\ rOut' = [used |-> TRUE,
                loadFails |-> LoadSyncStatusFails(rIn.file, rIn.readIO),
                loaded |-> LoadSyncStatus(rIn.file),
                clearFails |-> ClearSyncStatusFails(rIn.file, rIn.removeIO),
                cleared |-> IF ClearSyncStatusFails(rIn.file, rIn.removeIO)
                            THEN rIn.file
                            ELSE ClearSyncStatus(rIn.file)]
    /\ UNCHANGED <<upstream, disk, now, runs, pc, metadata, syncStatus, reconciled,
                   selectedCommits, idx, commit, diff, outcome, err, trace, commitLog,
                   watch, lastRecon, rIn>>

SpecStatusStore == InitStatusStore /\ [][RunStatusStore]_vars

\* the program's variables while only an operator of it is applied
NoRunYet ==
    /\ upstream = <<>>
    /\ now = 1
    /\ metaFile = NoFile
    /\ syncFile = NoFile
    /\ patchFile = NoFile
    /\ runs = 0
    /\ pc = "idle"
    /\ metadata = EmptyMetadata
    /\ syncStatus = EmptySyncStatus
    /\ commits = <<>>
    /\ newCommits = <<>>
    /\ warned = FALSE
    /\ selectedCommits = <<>>
    /\ idx = 0
    /\ appliedSet = {}
    /\ commit = EmptyCommit
    /\ diff = NoDiff
    /\ outcome = "none"
    /\ err = ""
    /\ trace = <<>>
    /\ commitLog = <<>>
    /\ startMeta = NoFile
    /\ startSync = NoFile
    /\ lastRun = NoRun
    /\ lastRecon = NoRecon

\* SyncProject's dispatch after both loads, for every sync.json of SyncFiles
\* next to every metadata.json source_repo of RepoValues
InitDispatch ==
    /\ NoRunYet
    /\ \E file \in SyncFiles, repo \in RepoValues :
          rIn = [used |-> TRUE, file |-> file, repo |-> repo]
    /\ rOut = HarnessIdle

RunDispatch ==
    /\ rIn.used
    /\ ~rOut.used
    /\ rOut' = [used |-> TRUE,
                next |-> AfterLoadSync(LoadSyncStatus(rIn.file), rIn.repo)]
    /\ UNCHANGED <<upstream, disk, now, runs, pc, metadata, syncStatus, reconciled,
                   selectedCommits, idx, commit, diff, outcome, err, trace, commitLog,
                   watch, lastRecon, rIn>>

SpecDispatch == InitDispatch /\ [][RunDispatch]_vars

\* git.ApplyDiff for every diff, temporary-file result, exit code of
\* `git apply --reject` and place of the reject files it left
InitApplyDiff ==
    /\ NoRunYet
    /\ \E s \in ShaUniverse, tmp \in TempFileResults, exitCode \in GitExitCodes,
          rejects \in RejectPlaces :
          rIn = [used |-> TRUE, diff |-> DiffOf(s), tmp |-> tmp,
                 exitCode |-> exitCode, rejects |-> rejects]
    /\ rOut = HarnessIdle

RunApplyDiff ==
    /\ rIn.used
    /\ ~rOut.used
    /\ rOut' = [used |-> TRUE,
                result |-> ApplyDiffCall(rIn.tmp, rIn.exitCode, rIn.rejects)]
    /\ UNCHANGED <<upstream, disk, now, runs, pc, metadata, syncStatus, reconciled,
                   selectedCommits, idx, commit, diff, outcome, err, trace, commitLog,
                   watch, lastRecon, rIn>>

SpecApplyDiff == InitApplyDiff /\ [][RunApplyDiff]_vars

\* ================================================================ claims
\* the ids of a sequence of commits
ShasOf(cs) == [k \in DOMAIN cs |-> cs[k].SHA]

Ascending(cs) == \A a, b \in DOMAIN cs : a < b => cs[a].Date <= cs[b].Date

\* ordering is an ascending-timestamp ordering of the fetched listing
AscendingOrderingOf(ordering, listing) ==
    IsPermutationOf(ordering, listing) /\ Ascending(ordering)

Unapplied(cs, applied) == SelectSeq(cs, LAMBDA c : c.SHA \notin Range(applied))

AnchorListed(listing, md) ==
    \E k \in DOMAIN listing : listing[k].SHA = md.SourceCommit

\* what the claims expect of one reconciliation result r of listing and metadata md:
\* the fetched commits in ascending timestamp order, and of those the unapplied
\* ones, after the anchor when it is listed and all of them when it is not
ExpectedCandidates(r, listing, md) ==
    LET ordering == r.commits
        after == {k \in DOMAIN ordering : ordering[k].SHA = md.SourceCommit}
    IN  IF after = {}
        THEN Unapplied(ordering, md.AppliedCommits)
        ELSE LET k == CHOOSE k \in after : TRUE
             IN  Unapplied(SubSeq(ordering, k + 1, Len(ordering)), md.AppliedCommits)

\* C1: when the fetched history lists source_commit, the candidates are exactly
\* the commits after source_commit in the ascending-timestamp ordering of the
\* history that are not in applied_commits, in that order.
C1_AnchoredCandidates ==
    (rOut.used /\ AnchorListed(rIn.listingA, rIn.metadata)) =>
        /\ AscendingOrderingOf(rOut.a.commits, rIn.listingA)
        /\ rOut.a.sourceCommitFound
        /\ rOut.a.newCommits = ExpectedCandidates(rOut.a, rIn.listingA, rIn.metadata)
        /\ Ascending(rOut.a.newCommits)

\* an anchored reconciliation of three commits that keeps one and drops an applied one
C1_Witness ==
    /\ rOut.used
    /\ AnchorListed(rIn.listingA, rIn.metadata)
    /\ Len(rIn.listingA) = 3
    /\ rOut.a.sourceCommitIndex = 1
    /\ Len(rOut.a.newCommits) = 1
    /\ rIn.listingA # rOut.a.commits

\* C2: when the fetched history does not list source_commit, the candidates are
\* exactly the fetched commits not in applied_commits, in ascending timestamp order.
C2_FallbackCandidates ==
    (rOut.used /\ ~AnchorListed(rIn.listingA, rIn.metadata)) =>
        /\ AscendingOrderingOf(rOut.a.commits, rIn.listingA)
        /\ ~rOut.a.sourceCommitFound
        /\ rOut.a.newCommits = Unapplied(rOut.a.commits, rIn.metadata.AppliedCommits)
        /\ ShasOf(rOut.a.newCommits) \in
              {q \in SeqsUpTo(ShaUniverse, MaxHist) :
                  /\ NoDup(q)
                  /\ Range(q) = Range(ShasOf(rIn.listingA))
                                   \ Range(rIn.metadata.AppliedCommits)}
        /\ Ascending(rOut.a.newCommits)

\* a fallback over three commits listed out of order, one of them applied
C2_Witness ==
    /\ rOut.used
    /\ ~AnchorListed(rIn.listingA, rIn.metadata)
    /\ Len(rIn.listingA) = 3
    /\ Len(rOut.a.newCommits) = 2
    /\ rOut.a.newCommits[1].Date < rOut.a.newCommits[2].Date
    /\ rIn.listingA # rOut.a.commits

\* C3: the candidate sequence does not depend on the order upstream lists the
\* commits in: two listings of the same history give the same candidates.
C3_ListingOrderIndependent ==
    rOut.used => rOut.a.newCommits = rOut.b.newCommits

\* the run in progress (or just ended) started with a conflict record in sync.json
ConflictOpenAtStart ==
    /\ pc # "idle"
    /\ startSync # NoFile
    /\ startSync.in_progress
    /\ startSync.has_conflicts

\* the steps of handleConflictResolution
HcrStates ==
    {"hcr_confirm", "hcr_skip", "hcr_clear_skip", "hcr_commit", "hcr_save_meta", "hcr_clear"}

\* the steps of reconciliation, selection and the apply loop (APPLYING)
ApplyingStates ==
    {"get_commits", "choose", "loop", "get_diff", "apply_diff", "save_patch",
     "save_sync", "commit", "save_meta"}

CountOf(op) == Cardinality({k \in DOMAIN trace : trace[k].op = op})

C5_ConflictBlocksApplying ==
    ConflictOpenAtStart =>
        /\ pc \in {"load_sync", "done"} \cup HcrStates
        /\ \A k \in DOMAIN trace : trace[k].op \notin {"GetCommits", "GetDiff", "ApplyDiff"}
        /\ outcome \in {"running", "error", "unresolved", "resolved", "skipped"}
        /\ commits = <<>> /\ newCommits = <<>> /\ selectedCommits = <<>>
        /\ pc \in HcrStates => commit = UnmarshalCommitInfo(startSync.conflict_commit)
        /\ \A k \in DOMAIN trace : trace[k].sha = startSync.conflict_commit.sha

\* a run that started on a conflict record and ended resolved
C5_Witness ==
    /\ ConflictOpenAtStart
    /\ outcome = "resolved"
    /\ Len(upstream) = 3

\* C6: a conflict on selected commit X ends the run: conflict.patch holds X's
\* diff, a status record for X is saved, SyncProject returns an error, the
\* conflict steps do not touch applied_commits, and no later selected commit has
\* its diff fetched or applied.
C6_ConflictStopsRun ==
    /\ [](outcome = "conflict" =>
            LET n == Len(trace)
                X == commit.SHA
            IN  /\ pc = "done"
                /\ err = "merge conflicts detected"
                /\ idx \in DOMAIN selectedCommits
                /\ selectedCommits[idx] = commit
                /\ n >= 4
                /\ trace[n - 3] = Event("GetDiff", X, "ok")
                /\ trace[n - 2] = Event("ApplyDiff", X, "conflict")
                /\ trace[n - 1] = Event("WritePatch", X, "ok")
                /\ trace[n] = Event("SaveSyncStatus", X, "ok")
                /\ CountOf("GetDiff") = idx
                /\ CountOf("ApplyDiff") = idx
                /\ patchFile = DiffOf(X)
                /\ syncFile # NoFile
                /\ syncFile.current_commit = X
                /\ metaFile.applied_commits =
                      startMeta.applied_commits
                         \o ShasOf(SubSeq(selectedCommits, 1, idx - 1)))
    /\ [][(pc \in {"apply_diff", "save_patch", "save_sync"}) => UNCHANGED metaFile]_vars

\* a conflict on the second of three selected commits
C6_Witness ==
    /\ outcome = "conflict"
    /\ idx = 2
    /\ Len(selectedCommits) = 3

\* C7: after a run ended with a conflict on X, LoadSyncStatus returns
\* in_progress, has_conflicts, current_commit = X.id and a conflict_commit equal
\* to X as it was fetched (id, message, author, date, URL); the next run works
\* on that commit.
C7_ConflictRoundTrip ==
    /\ outcome = "conflict" =>
          LET status == LoadSyncStatus(syncFile)
          IN  /\ status.InProgress
              /\ status.HasConflicts
              /\ status.CurrentCommit = selectedCommits[idx].SHA
              /\ status.ConflictsAt = now
              /\ status.ConflictCommit = selectedCommits[idx]
              /\ \E k \in DOMAIN upstream : upstream[k] = status.ConflictCommit
    /\ (lastRun.outcome = "conflict" /\ pc \in HcrStates) =>
          /\ syncStatus.CurrentCommit = lastRun.sha
          /\ syncStatus.ConflictCommit = commit
          /\ \E k \in DOMAIN upstream : upstream[k] = commit /\ commit.SHA = lastRun.sha

\* the run after a conflict on a commit with a two-line message has reloaded it
C7_Witness ==
    /\ lastRun.outcome = "conflict"
    /\ pc = "hcr_confirm"
    /\ Len(commit.Message) = 2

\* C8: conflict confirmed resolved: the tree is committed, the commit id is
\* appended to applied_commits, last_synced_at is refreshed, the metadata is
\* saved, sync.json is removed, the run succeeds without applying any other
\* commit, and the next reconciliation does not list that commit.
C8_ResolvedPath ==
    /\ outcome = "resolved" =>
          LET X == startSync.conflict_commit.sha
          IN  /\ pc = "done"
              /\ err = ""
              /\ Len(trace) = 4
              /\ trace[1] = Event("ConfirmResolved", X, "yes")
              /\ trace[2] \in {Event("CommitChanges", X, "committed"),
                               Event("CommitChanges", X, "nothing")}
              /\ trace[3] = Event("SaveProjectMetadata", X, "ok")
              /\ trace[4] = Event("ClearSyncStatus", X, "ok")
              /\ metaFile = [startMeta EXCEPT !.applied_commits = Append(@, X),
                                              !.last_synced_at = now]
              /\ now > startMeta.last_synced_at
              /\ syncFile = NoFile
              /\ LoadSyncStatus(syncFile) = EmptySyncStatus
    /\ (lastRun.outcome = "resolved" /\ Reconciled) =>
          \A k \in DOMAIN newCommits : newCommits[k].SHA # lastRun.sha

\* the reconciliation after a resolved conflict still has another candidate
C8_Witness ==
    /\ lastRun.outcome = "resolved"
    /\ Reconciled
    /\ Len(newCommits) >= 1
    /\ \E k \in DOMAIN upstream : upstream[k].SHA = lastRun.sha

\* C9: skipping the conflicted commit X clears sync.json, leaves the metadata
\* unchanged and succeeds, and X is a candidate of the next reconciliation.
C9_SkipSemantics ==
    /\ outcome = "skipped" =>
          /\ syncFile = NoFile
          /\ metaFile = startMeta
          /\ err = ""
    /\ (lastRun.outcome = "skipped" /\ Reconciled) =>
          \E k \in DOMAIN newCommits : newCommits[k].SHA = lastRun.sha

\* C10: declining both prompts fails the run and leaves sync.json and
\* metadata.json as they were; the next run is in CONFLICTED on the same commit.
C10_UnresolvedKeepsState ==
    /\ outcome = "unresolved" =>
          /\ pc = "done"
          /\ err # ""
          /\ syncFile = startSync
          /\ metaFile = startMeta
          /\ trace = <<Event("ConfirmResolved", commit.SHA, "no"),
                       Event("ConfirmSkip", commit.SHA, "no")>>
          /\ HasOpenConflict(LoadSyncStatus(syncFile))
          /\ LoadSyncStatus(syncFile).CurrentCommit = commit.SHA
          /\ LoadSyncStatus(syncFile).ConflictCommit = commit
    /\ lastRun.outcome = "unresolved" =>
          /\ ConflictOpenAtStart
          /\ startSync.current_commit = lastRun.sha
          /\ pc \notin ApplyingStates
          /\ pc \in HcrStates => commit.SHA = lastRun.sha

\* the run after an unresolved one asks about the same commit again
C10_Witness ==
    /\ lastRun.outcome = "unresolved"
    /\ pc = "hcr_confirm"
    /\ commit.SHA = lastRun.sha

\* the ids the current run has appended and saved so far, in order
CompletedInRun == ShasOf(SubSeq(selectedCommits, 1, idx - 1))

\* C11: a failure of GetDiff, ApplyDiff (not a conflict), CommitChanges or
\* SaveProjectMetadata for selected commit X ends the run at once with that
\* error; X is not in the persisted applied_commits, no sync.json is created, and
\* the next reconciliation lists X as a candidate again.
C11_ApplyFailureRetryable ==
    /\ FailedApplying =>
          /\ pc = "done"
          /\ trace[Len(trace)].sha = commit.SHA
          /\ trace[Len(trace)].result = "error"
          /\ syncFile = NoFile
          /\ metaFile.applied_commits = startMeta.applied_commits \o CompletedInRun
          /\ commit.SHA \notin Range(metaFile.applied_commits)
    /\ (lastRun.outcome = "error" /\ lastRun.applying /\ Reconciled) =>
          \E k \in DOMAIN newCommits : newCommits[k].SHA = lastRun.sha

\* the steps of the apply loop
LoopStates ==
    {"loop", "get_diff", "apply_diff", "save_patch", "save_sync", "commit", "save_meta"}

\* the run is in the apply loop or has left it
InOrPastLoop == pc \in LoopStates \/ (pc = "done" /\ selectedCommits # <<>>)

CountResult(op, result) ==
    Cardinality({k \in DOMAIN trace : trace[k].op = op /\ trace[k].result = result})

\* C12: each clean apply appends the commit id at the end of applied_commits,
\* refreshes last_synced_at and saves the metadata before the next diff is
\* fetched: throughout the loop metadata.json holds the start entries followed by
\* the commits completed so far in this run, in application order.
C12_PerCommitPersistence ==
    /\ [](InOrPastLoop =>
            /\ metaFile.applied_commits = startMeta.applied_commits \o CompletedInRun
            /\ CountResult("SaveProjectMetadata", "ok") = idx - 1
            /\ CountResult("ApplyDiff", "applied") \in {idx - 1, idx}
            /\ idx > 1 => metaFile.last_synced_at = now
            /\ idx = 1 => metaFile = startMeta)
    /\ [][(pc = "save_meta" /\ pc' = "loop") =>
            /\ metaFile' = [metaFile EXCEPT !.applied_commits = Append(@, commit.SHA),
                                            !.last_synced_at = now]
            /\ idx' = idx + 1]_vars
    /\ [][(pc = "get_diff") =>
            metaFile.applied_commits = startMeta.applied_commits \o CompletedInRun]_vars

\* the third selected commit is about to be fetched, two are saved
C12_Witness ==
    /\ pc = "get_diff"
    /\ idx = 3
    /\ Len(metaFile.applied_commits) = Len(startMeta.applied_commits) + 2

IsPrefix(a, b) == Len(a) <= Len(b) /\ SubSeq(b, 1, Len(a)) = a

\* the commits the current run has applied: clean applies, and the conflict a
\* resolved run has settled
AppliedInRun ==
    CountResult("ApplyDiff", "applied") + (IF outcome = "resolved" THEN 1 ELSE 0)

\* C13: the persisted applied_commits only grows at its end: every step leaves
\* the old value a prefix of the new one, whatever the run's outcome, and a
\* successful run lengthens it by the number of commits it applied.
C13_MonotonicGrowth ==
    /\ [][\/ metaFile = NoFile /\ metaFile' = NoFile
          \/ /\ metaFile # NoFile
             /\ metaFile' # NoFile
             /\ IsPrefix(metaFile.applied_commits, metaFile'.applied_commits)]_vars
    /\ []((pc = "done" /\ metaFile # NoFile) =>
            IsPrefix(startMeta.applied_commits, metaFile.applied_commits))
    /\ []((pc = "done" /\ err = "") =>
            Len(metaFile.applied_commits) = Len(startMeta.applied_commits) + AppliedInRun)

\* a third run completes two commits after earlier runs changed the list
C13_Witness ==
    /\ runs = 3
    /\ outcome = "completed"
    /\ AppliedInRun = 2
    /\ Len(startMeta.applied_commits) = 2

\* C14: no commit id occurs twice in the persisted applied_commits.
C14_NoDuplicates ==
    metaFile # NoFile => NoDup(metaFile.applied_commits)

\* the timestamp upstream gives a commit id
DateOf(sha) == upstream[CHOOSE k \in DOMAIN upstream : upstream[k].SHA = sha].Date

\* the ids whose patch the current run has applied, in order
PatchesApplied ==
    LET applies == SelectSeq(trace, LAMBDA e : e.op = "ApplyDiff" /\ e.result # "error")
    IN  [k \in DOMAIN applies |-> applies[k].sha]

\* C15: within a run the commits are applied in ascending timestamp order.
C15_AppliedInTimestampOrder ==
    \A a, b \in DOMAIN PatchesApplied :
        a < b => DateOf(PatchesApplied[a]) <= DateOf(PatchesApplied[b])

\* C16: with no candidates (empty history or everything eligible applied) the
\* run returns success as up to date: no selection prompt, no diff, no patch,
\* metadata.json and sync.json unchanged.
C16_UpToDate ==
    /\ (Reconciled /\ newCommits = <<>>) =>
          /\ pc = "done"
          /\ outcome = "up_to_date"
          /\ err = ""
          /\ trace = <<Event("GetCommits", EmptyString, "ok")>>
          /\ selectedCommits = <<>>
          /\ commitLog = <<>>
          /\ metaFile = startMeta
          /\ syncFile = startSync
    /\ outcome = "up_to_date" =>
          /\ Reconciled
          /\ \A k \in DOMAIN upstream :
                \/ upstream[k].SHA \in Range(startMeta.applied_commits)
                \/ \E j \in DOMAIN commits :
                      /\ commits[j].SHA = startMeta.source_commit
                      /\ \E i \in 1..j : commits[i] = upstream[k]

\* a run finds all three upstream commits applied by earlier runs
C16_Witness ==
    /\ outcome = "up_to_date"
    /\ Len(upstream) = 3
    /\ Len(startMeta.applied_commits) = 4

\* C17: candidates exist and the operator selects none: the run returns success,
\* applies nothing and leaves metadata.json (last_synced_at included) and
\* sync.json unchanged.
C17_EmptySelection ==
    (/\ pc = "done"
     /\ selectedCommits = <<>>
     /\ CountResult("ChooseCommits", "ok") = 1) =>
        /\ outcome = "no_selection"
        /\ err = ""
        /\ newCommits # <<>>
        /\ trace = <<Event("GetCommits", EmptyString, "ok"),
                     Event("ChooseCommits", EmptyString, "ok")>>
        /\ commitLog = <<>>
        /\ metaFile = startMeta
        /\ syncFile = startSync

\* nothing selected out of three candidates, after an earlier run
C17_Witness ==
    /\ outcome = "no_selection"
    /\ Len(newCommits) = 3
    /\ runs = 2

\* C18: a commit whose id is in applied_commits is not offered for selection,
\* does not have its patch applied and is not appended again, also when it was
\* appended earlier in the same run.
C18_NoDoubleApply ==
    /\ Reconciled =>
          \A k \in DOMAIN newCommits : newCommits[k].SHA \notin Range(startMeta.applied_commits)
    /\ pc \in {"apply_diff", "commit", "save_meta"} =>
          commit.SHA \notin Range(metaFile.applied_commits)

\* source_commit is listed and every other listed commit is newer
AnchorOldest ==
    \E k \in DOMAIN upstream :
        /\ upstream[k].SHA = startMeta.source_commit
        /\ \A j \in DOMAIN upstream : j # k => upstream[j].Date > upstream[k].Date

\* C19: from applied_commits = [source_commit] with source_commit the oldest
\* listed commit, selecting every candidate with every apply succeeding gives
\* applied_commits = [source_commit] followed by all later commits in ascending
\* timestamp order, and reconciling the same history again gives no candidates.
C19_CleanAnchor ==
    (/\ outcome = "completed"
     /\ startMeta.applied_commits = <<startMeta.source_commit>>
     /\ AnchorOldest
     /\ Len(selectedCommits) = Len(newCommits)) =>
        /\ metaFile.applied_commits = ShasOf(commits)
        /\ commits[1].SHA = startMeta.source_commit
        /\ Ascending(commits)
        /\ Reconcile(upstream, UnmarshalMetadata(metaFile)).newCommits = <<>>

\* C20: with no sync.json, LoadSyncStatus returns the default status (not in
\* progress, no conflicts, no conflict commit) and no error, so SyncProject does
\* not take the conflict branch and goes on to reconciliation; ClearSyncStatus
\* without a sync.json succeeds and leaves the directory as it was.
C20_AbsenceIsClean ==
    (rOut.used /\ rIn.file = NoFile) =>
        /\ ~rOut.loadFails
        /\ rOut.loaded = EmptySyncStatus
        /\ ~rOut.loaded.InProgress
        /\ ~rOut.loaded.HasConflicts
        /\ rOut.loaded.ConflictCommit = Nil
        /\ ~HasOpenConflict(rOut.loaded)
        /\ ~rOut.clearFails
        /\ rOut.cleared = rIn.file

\* both calls made on a directory without sync.json while reads and removals fail
C20_Witness ==
    /\ rOut.used
    /\ rIn.file = NoFile
    /\ rIn.readIO = "error"
    /\ rIn.removeIO = "error"

\* the runs that end without an error
SuccessOutcomes == {"up_to_date", "no_selection", "completed", "resolved", "skipped"}

\* what a finished run leaves of sync.json, apart from the run that resolved
\* its conflict: none after a success, none after a failure of a run that
\* started without one, one after a recorded conflict
RecordFollowsOutcome ==
    pc = "done" =>
        /\ (outcome \in SuccessOutcomes => syncFile = NoFile)
        /\ (outcome = "error" /\ startSync = NoFile => syncFile = NoFile)
        /\ (outcome = "conflict" =>
               /\ syncFile # NoFile
               /\ startSync = NoFile
               /\ \E n \in DOMAIN trace :
                      trace[n] = Event("ApplyDiff", syncFile.current_commit, "conflict"))
        /\ (syncFile # NoFile /\ outcome # "conflict" => syncFile = startSync)

\* C21: sync.json exists exactly while a conflict is open: a finished run leaves
\* no record after a success or after a failure of a run that started without
\* one, it leaves one after an apply that reported a conflict, and a run in
\* which the operator confirmed the resolution and the resolved commit was
\* saved to applied_commits leaves no record either.
C21_RecordIffConflictOpen ==
    /\ RecordFollowsOutcome
    /\ (pc = "done" /\ ConflictOpenAtStart /\ metaFile # startMeta => syncFile = NoFile)

\* C22: a persisted SyncStatus with has_conflicts = true also has
\* in_progress = true, a conflict_commit, and a current_commit equal to that
\* commit's id; no run ends with "missing conflict commit information".
C22_ConflictRecordWellFormed ==
    /\ (syncFile # NoFile /\ syncFile.has_conflicts =>
           /\ syncFile.in_progress
           /\ "conflict_commit" \in DOMAIN syncFile
           /\ syncFile.current_commit = syncFile.conflict_commit.sha)
    /\ err # "missing conflict commit information"

\* a run found the record of an earlier run and entered handleConflictResolution
\* with its conflict commit
C22_Witness ==
    /\ pc = "hcr_confirm"
    /\ syncFile # NoFile
    /\ syncFile.has_conflicts
    /\ commit.SHA = syncFile.current_commit
    /\ lastRun.outcome = "conflict"

\* the ids of the commits GetCommits returns for source_branch
Fetched == {upstream[k].SHA : k \in DOMAIN upstream}

\* C23: every id a run appends to applied_commits was in the commit list fetched
\* in the run that selected it and among that run's candidates: for the apply
\* loop this run's list, candidates and selection, for a resolved conflict the
\* list and candidates of the run that recorded the conflict.
C23_AppendedWereCandidates ==
    [][(metaFile' # metaFile) =>
          LET X == metaFile'.applied_commits[Len(metaFile'.applied_commits)]
          IN  /\ Len(metaFile'.applied_commits) = Len(metaFile.applied_commits) + 1
              /\ X \in Fetched
              /\ (pc = "save_meta" =>
                     /\ Reconciled
                     /\ X \in Range(ShasOf(commits))
                     /\ X \in Range(ShasOf(newCommits))
                     /\ X \in Range(ShasOf(selectedCommits)))
              /\ (pc = "hcr_save_meta" =>
                     /\ lastRun.outcome \in {"conflict", "unresolved", "error"}
                     /\ lastRecon.valid
                     /\ X = startSync.current_commit
                     /\ X \in Range(ShasOf(lastRecon.newCommits)))
              /\ pc \in {"save_meta", "hcr_save_meta"}]_vars

\* a run resolved the conflict an earlier run recorded and appended its commit
C23_Witness ==
    /\ pc = "done"
    /\ outcome = "resolved"
    /\ Len(metaFile.applied_commits) >= 3
    /\ lastRecon.valid

\* C24: a run on a directory without metadata.json ends at once with "failed
\* to load project metadata": the sync status is not read, no collaborator is
\* called and no file is written.
C24_MissingMetadata ==
    (pc # "idle" /\ startMeta = NoFile) =>
        /\ pc = "done"
        /\ outcome = "error"
        /\ err = "failed to load project metadata"
        /\ syncStatus = EmptySyncStatus
        /\ trace = <<>>
        /\ commitLog = <<>>
        /\ metaFile = NoFile
        /\ syncFile = startSync
        /\ patchFile = NoFile

\* a second run on a directory that still has no metadata.json has ended
C24_Witness ==
    /\ pc = "done"
    /\ runs = 2
    /\ startMeta = NoFile
    /\ err = "failed to load project metadata"

\* source_repo does not split into exactly owner and name
Malformed(repo) == Len(SplitSlash(repo)) # 2

\* runs of a project created with a malformed source_repo: they end before any
\* collaborator is called and leave every file as it was
MalformedFromCreationIsFatal ==
    (pc # "idle" /\ startMeta # NoFile /\ Malformed(startMeta.source_repo)) =>
        /\ pc \in {"load_sync", "done"}
        /\ trace = <<>>
        /\ commitLog = <<>>
        /\ metaFile = startMeta
        /\ syncFile = NoFile
        /\ patchFile = NoFile
        /\ (pc = "done" =>
               /\ outcome = "error"
               /\ err \in {"failed to load project metadata",
                            "failed to load sync status",
                            "invalid repository format"})

C26_DegradedIsWarning ==
    Reconciled =>
        /\ warned <=> ~AnchorListed(upstream, metadata)
        /\ (warned =>
               /\ ShasOf(newCommits) = ShasOf(Unapplied(commits, startMeta.applied_commits))
               /\ (Len(trace) = 1 => pc = "choose" \/ outcome = "up_to_date"))

\* a run warned about the missing source_commit and went on to the selection
C26_Witness ==
    /\ warned
    /\ pc = "choose"
    /\ newCommits # <<>>

\* `git apply --reject` ran and left rejected hunks: it exits with 1 and there
\* are reject files somewhere in the project tree
LeftRejectedHunks(in) == in.tmp = "ok" /\ in.exitCode = 1 /\ in.rejects # "none"

\* C27: whenever applying the patch leaves rejected hunks, with the reject
\* files anywhere in the project tree, ApplyDiff reports the conflict outcome
\* and not an error.
C27_RejectsAreConflicts ==
    (rOut.used /\ LeftRejectedHunks(rIn)) => rOut.result = "conflict"

\* the run applied some of its selection and then ended on a conflict or on an
\* error at the next selected commit
EndedAfterPartialProgress ==
    /\ pc = "done"
    /\ outcome \in {"conflict", "error"}
    /\ selectedCommits # <<>>
    /\ idx >= 2

\* C28: when a run has applied A1..Ak and then ends on a conflict or an error
\* at the next selected commit, metadata.json still holds the start entries
\* followed by A1..Ak, and none of them is a candidate of the reconciliation
\* that follows; in every run no candidate is in the applied_commits the run
\* loaded.
C28_PartialProgressKept ==
    /\ EndedAfterPartialProgress =>
          /\ idx <= Len(selectedCommits)
          /\ metaFile.applied_commits = startMeta.applied_commits \o CompletedInRun
          /\ \A a \in Range(CompletedInRun) :
                a \notin Range(ShasOf(
                    Reconcile(upstream, LoadProjectMetadata(metaFile)).newCommits))
    /\ Reconciled =>
          \A k \in DOMAIN newCommits :
              newCommits[k].SHA \notin Range(startMeta.applied_commits)

\* two commits were applied and saved, and the run ended on a conflict at the third
C28_Witness ==
    /\ pc = "done"
    /\ outcome = "conflict"
    /\ idx = 3
    /\ Len(metaFile.applied_commits) = Len(startMeta.applied_commits) + 2
    /\ syncFile # NoFile

\* the outcomes a run can end in; "error" stands for the I/O and validation errors
TerminalOutcomes ==
    {"up_to_date", "no_selection", "completed", "conflict", "unresolved",
     "resolved", "skipped", "error"}

\* the steps of a run after its start
RunStep ==
    \/ LoadSync \/ GetCommits \/ Choose \/ LoopHead \/ GetDiff \/ ApplyPatch
    \/ SavePatch \/ SaveConflict \/ CommitApplied \/ SaveApplied
    \/ HcrConfirm \/ HcrAskSkip \/ HcrClearSkipped \/ HcrCommit
    \/ HcrSaveResolved \/ HcrClearResolved

\* the position of a step within one turn of the apply loop, counted from its end
StepsLeftInTurn ==
    CASE pc = "loop" -> 6
      [] pc = "get_diff" -> 5
      [] pc = "apply_diff" -> 4
      [] pc \in {"commit", "save_patch"} -> 3
      [] pc \in {"save_meta", "save_sync"} -> 2

\* an upper bound of the steps the run can still take
StepsLeft ==
    CASE pc \in {"idle", "done"} -> 0
      [] pc = "hcr_clear" -> 1
      [] pc = "hcr_save_meta" -> 2
      [] pc \in {"hcr_commit", "hcr_clear_skip"} -> 3
      [] pc = "hcr_skip" -> 4
      [] pc = "hcr_confirm" -> 5
      [] pc \in LoopStates -> 7 * (Len(selectedCommits) + 1 - idx) + StepsLeftInTurn
      [] pc = "choose" -> 7 * Len(newCommits) + 7
      [] pc = "get_commits" -> 7 * Len(upstream) + 8
      [] pc = "load_sync" -> 7 * Len(upstream) + 9

\* C29: every run terminates, in exactly one of the outcomes up-to-date,
\* no-selection, completed, conflict, unresolved conflict, resolved, skipped or
\* error: a run that has not ended can always take a step, every step lowers a
\* bound of the steps left, a finished run has one of these outcomes, with an
\* error message exactly when the outcome is not a success, and the outcome
\* stays until the next run starts. The run calls ApplyDiff at most once per
\* selected commit.
C29_RunsTerminate ==
    /\ [](pc \notin {"idle", "done"} => outcome = "running" /\ ENABLED RunStep)
    /\ [][(pc \notin {"idle", "done"}) => StepsLeft' < StepsLeft]_vars
    /\ [](StepsLeft >= 0)
    /\ [](pc = "done" =>
             /\ outcome \in TerminalOutcomes
             /\ (err = "" <=> outcome \in SuccessOutcomes))
    /\ [][(pc = "done" /\ pc' = "done" /\ runs' = runs) => outcome' = outcome]_vars
    /\ [](CountOf("ApplyDiff") <= Len(selectedCommits))

\* a run over three selected commits ran the loop to its end
C29_Witness ==
    /\ pc = "done"
    /\ outcome = "completed"
    /\ Len(selectedCommits) = 3
    /\ CountOf("ApplyDiff") = 3

\* how often the run called op for commit sha
CallsFor(op, sha) ==
    Cardinality({k \in DOMAIN trace : trace[k].op = op /\ trace[k].sha = sha})

\* how often sha was selected
SelectedTimes(sha) ==
    Cardinality({i \in DOMAIN selectedCommits : selectedCommits[i].SHA = sha})

\* the collaborator operations of one turn of the apply loop
PerCommitOps ==
    {"GetDiff", "ApplyDiff", "WritePatch", "SaveSyncStatus", "CommitChanges",
     "SaveProjectMetadata"}

\* C30: a run calls GetCommits and the selection prompt at most once; in the
\* apply loop it calls GetDiff, ApplyDiff, CommitChanges and the metadata save
\* (and the two conflict writes) at most once for each selected entry; a run
\* that resolves a conflict calls each of its operations at most once; and a
\* failed call is the last call of the run, which ends with an error.
C30_NoRetries ==
    /\ CountOf("GetCommits") <= 1
    /\ CountOf("ChooseCommits") <= 1
    /\ (pc \in LoopStates \/ (pc = "done" /\ ~ConflictOpenAtStart)) =>
          \A op \in PerCommitOps, sha \in ShaUniverse :
              /\ CallsFor(op, sha) <= SelectedTimes(sha)
              /\ CountOf(op) <= idx
    /\ ConflictOpenAtStart =>
          \A op \in {"ConfirmResolved", "ConfirmSkip", "CommitChanges",
                      "SaveProjectMetadata", "ClearSyncStatus"} : CountOf(op) <= 1
    /\ \A k \in DOMAIN trace :
          trace[k].result = "error" =>
              /\ k = Len(trace)
              /\ pc = "done"
              /\ outcome = "error"

\* GetDiff failed for the second selected commit and the run has ended
C30_Witness ==
    /\ pc = "done"
    /\ outcome = "error"
    /\ idx = 2
    /\ CountOf("GetDiff") = 2
    /\ trace[Len(trace)] = Event("GetDiff", commit.SHA, "error")

\* the runs of a project whose operator keeps running sync: a started run goes
\* on to its return, and a finished run is followed by another one
InitLive == Init /\ Len(upstream) <= MaxLiveHist

SpecLive == InitLive /\ [][Next]_vars /\ WF_vars(RunStep) /\ WF_vars(StartRun)

\* CONFLICTED between runs: sync.json holds a conflict record
Conflicted == pc = "done" /\ syncFile # NoFile

\* a finished conflict run in which a call failed or the operator answered
\* neither "resolved" nor "skip"
ResolutionNotGiven ==
    pc = "done" /\ ConflictOpenAtStart /\ outcome \in {"error", "unresolved"}

\* what ticking every option selects
AllSelected == ChooseCommits(newCommits, DOMAIN newCommits)

\* a finished run that failed, met a conflict, or in which the operator did
\* not select every candidate
NotAllApplied ==
    /\ pc = "done"
    /\ \/ outcome \notin {"completed", "up_to_date"}
       \/ outcome = "completed" /\ selectedCommits # AllSelected

\* a project with a metadata.json whose source_repo is owner/name
WellFormedProject == metaFile # NoFile /\ ~Malformed(metaFile.source_repo)

\* C31: whenever a run has left a conflict record and the operator runs sync
\* again, a later run ends, and it ends with sync.json removed unless a call
\* failed or the operator answered neither "resolved" nor "skip"; and a
\* well-formed project without a conflict record whose operator keeps running
\* sync reaches "up to date" unless some run failed, met a conflict or did not
\* select every candidate.
C31_Resumable ==
    /\ \A r \in 1..(MaxRuns - 1) :
          (Conflicted /\ runs = r) ~>
              (pc = "done" /\ runs > r /\ (syncFile = NoFile \/ ResolutionNotGiven))
    /\ (WellFormedProject /\ syncFile = NoFile /\ runs = 0) =>
          <>((pc = "done" /\ outcome = "up_to_date") \/ NotAllApplied)

\* a conflict was recorded, and the next run ended with the record removed
C31_Witness ==
    /\ pc = "done"
    /\ ConflictOpenAtStart
    /\ lastRun.outcome = "conflict"
    /\ outcome \in {"resolved", "skipped"}
    /\ syncFile = NoFile

\* the number of ids the current run has appended to applied_commits
AppendedInRun == Len(metaFile.applied_commits) - Len(startMeta.applied_commits)

\* every id appended to applied_commits is preceded by one successful call of
\* CommitChanges for it, which created a commit with the expected message
\* unless nothing was staged
CommitCalledPerApplied ==
    [][(metaFile' # metaFile) =>
          LET last == trace[Len(trace)]
          IN  /\ last.op = "CommitChanges"
              /\ last.sha = commit.SHA
              /\ last.result \in {"committed", "nothing"}
              /\ CallsFor("CommitChanges", commit.SHA) <= SelectedTimes(commit.SHA) + 1
              /\ Len(commitLog) = CountResult("CommitChanges", "committed")
              /\ (last.result = "committed" =>
                     /\ commitLog[Len(commitLog)].repo = startMeta.source_repo
                     /\ commitLog[Len(commitLog)].summary = FirstLine(commit.Message))]_vars

\* C32: every id appended to applied_commits is preceded, in the same run, by
\* the creation of exactly one commit for it: at the step that saves the
\* appended id the last call of the run is a CommitChanges for that id which
\* created a commit, the run has created one commit per id appended, and the
\* message of the newest one embeds source_repo and the first line of the
\* upstream commit's message.
C32_OneCommitPerApplied ==
    [][(metaFile' # metaFile) =>
          /\ trace[Len(trace)] = Event("CommitChanges", commit.SHA, "committed")
          /\ Len(commitLog) = AppendedInRun + 1
          /\ commitLog[Len(commitLog)].repo = startMeta.source_repo
          /\ commitLog[Len(commitLog)].summary = FirstLine(commit.Message)]_vars

\* C33: a new project has applied_commits = [source_commit]; in every state
\* sync runs reach, source_commit is the first entry of the persisted
\* applied_commits; and no reconciliation, anchored or fallback, lists
\* source_commit as a candidate.
C33_SourceCommitFirst ==
    /\ metaFile # NoFile =>
          /\ Len(metaFile.applied_commits) >= 1
          /\ metaFile.applied_commits[1] = metaFile.source_commit
          /\ (runs = 0 => metaFile.applied_commits = <<metaFile.source_commit>>)
    /\ Reconciled =>
          \A k \in DOMAIN newCommits : newCommits[k].SHA # metadata.SourceCommit

\* a later run found source_commit in the history, with other commits as
\* candidates and an earlier run's commit already appended behind source_commit
C33_Witness ==
    /\ Reconciled
    /\ runs >= 2
    /\ newCommits # <<>>
    /\ AnchorListed(upstream, metadata)
    /\ Len(metaFile.applied_commits) >= 2

\* C34: no step of a run changes source_repo, source_branch, source_commit or
\* created_at of metadata.json; a step that changes metadata.json appends
\* exactly one id to applied_commits; and while a run has appended nothing,
\* metadata.json is what it was when the run started.
C34_MetadataFrame ==
    /\ [][(metaFile' # metaFile) =>
            /\ metaFile # NoFile
            /\ metaFile' # NoFile
            /\ metaFile'.source_repo = metaFile.source_repo
            /\ metaFile'.source_branch = metaFile.source_branch
            /\ metaFile'.source_commit = metaFile.source_commit
            /\ metaFile'.created_at = metaFile.created_at
            /\ \E x \in ShaUniverse :
                  metaFile'.applied_commits = Append(metaFile.applied_commits, x)]_vars
    /\ []((pc # "idle" /\ startMeta # NoFile /\ AppendedInRun = 0) => metaFile = startMeta)

\* a later run appended a commit and saved a newer last_synced_at
C34_Witness ==
    /\ runs >= 2
    /\ metaFile # NoFile
    /\ AppendedInRun = 1
    /\ metaFile.last_synced_at > startMeta.last_synced_at
    /\ metaFile.created_at = 1

\* the commit of the conflict record is also in the persisted applied_commits
RecordedAndApplied ==
    /\ syncFile # NoFile
    /\ metaFile # NoFile
    /\ syncFile.current_commit \in Range(metaFile.applied_commits)

\* the record's commit is applied only when this run saved the resolved commit
\* and has not removed the record, when the run started that way, or when the
\* conflict is on a later selection of a commit selected more than once
RecordedAndAppliedOnlyBy ==
    RecordedAndApplied =>
        \/ ConflictOpenAtStart /\ AppendedInRun = 1
        \/ ConflictOpenAtStart /\ startSync.current_commit \in Range(startMeta.applied_commits)
        \/ SelectedTimes(syncFile.current_commit) >= 2

\* C35: whenever no run is under way and sync.json holds a conflict record, its
\* current_commit is not in the persisted applied_commits.
C35_ConflictNotApplied ==
    pc \in {"idle", "done"} => ~RecordedAndApplied

\* the timestamp of source_commit in a listing that has it
AnchorDate(listing, md) ==
    LET k == CHOOSE k \in DOMAIN listing : listing[k].SHA = md.SourceCommit
    IN  listing[k].Date

\* what one reconciliation r of listing and md does with the commits around a
\* listed anchor: every unapplied commit strictly later than the anchor is a
\* candidate, and no candidate is strictly earlier
StrictlyOrderedAroundAnchor(r, listing, md) ==
    AnchorListed(listing, md) =>
        /\ \A k \in DOMAIN listing :
              (listing[k].Date > AnchorDate(listing, md)
                 /\ listing[k].SHA \notin Range(md.AppliedCommits))
                  => listing[k].SHA \in Range(ShasOf(r.newCommits))
        /\ \A k \in DOMAIN r.newCommits :
              r.newCommits[k].Date >= AnchorDate(listing, md)

\* the part of the claim that does not involve equal timestamps
StrictlyLaterAreCandidates ==
    rOut.used =>
        /\ StrictlyOrderedAroundAnchor(rOut.a, rIn.listingA, rIn.metadata)
        /\ StrictlyOrderedAroundAnchor(rOut.b, rIn.listingB, rIn.metadata)

\* C36: with the anchor in the fetched history, every unapplied commit with a
\* timestamp strictly later than source_commit's is a candidate and none with a
\* strictly earlier one is; and a commit whose timestamp equals source_commit's
\* is a candidate for both listings of the same history or for neither.
C36_TimestampTies ==
    /\ StrictlyLaterAreCandidates
    /\ (rOut.used /\ AnchorListed(rIn.listingA, rIn.metadata)) =>
          \A k \in DOMAIN rIn.listingA :
              rIn.listingA[k].Date = AnchorDate(rIn.listingA, rIn.metadata) =>
                  (rIn.listingA[k].SHA \in Range(ShasOf(rOut.a.newCommits))
                     <=> rIn.listingA[k].SHA \in Range(ShasOf(rOut.b.newCommits)))

=============================================================================
